---- MODULE Spec2Model ----
(***************************************************************************)
(* Hybrid RAG system: reciprocal rank fusion (src/src/rrf_fusion.py),      *)
(* answer_query (src/src/rag_system.py), the evaluation metrics            *)
(* (src/evaluation/metrics.py) and the evaluation pipeline                 *)
(* (src/evaluation/evaluation_pipeline.py).                                *)
(*                                                                         *)
(* The program is single-threaded Python: one function runs at a time.     *)
(* pc names the function whose call has just returned (or raised); Return  *)
(* hands control back to the caller and drops the call's locals.           *)
(*                                                                         *)
(* Scores are Python floats computed as 1/(k + rank) and summed.  They are *)
(* modelled as exact rationals <<numerator, denominator>> in lowest terms  *)
(* with a positive denominator, so two scores are equal exactly when their *)
(* representations are equal.  Floating-point rounding is not modelled.    *)
(***************************************************************************)
EXTENDS Integers, Sequences, FiniteSets, TLC

VARIABLES
    pc,              \* "idle", or the name of the function that just returned
    exc,             \* "none", or the exception the call raised
    dense_results,   \* reciprocal_rank_fusion: first argument (contents, best first)
    sparse_results,  \* reciprocal_rank_fusion: second argument
    k,               \* reciprocal_rank_fusion: k
    top_n,           \* reciprocal_rank_fusion: top_n
    rrf_scores,      \* reciprocal_rank_fusion: the dict, as its items in insertion order
    fused,           \* reciprocal_rank_fusion: the returned list
    results,         \* mean_reciprocal_rank: the batch of records
    mrr,             \* mean_reciprocal_rank: the returned value
    ret,             \* error_analysis, llm_as_judge, ...: the returned value
    scores,          \* llm_as_judge: the per-criterion score lists
    calls,           \* answer_query, run_evaluation: the calls made, in order
    files,           \* the report files under output_dir
    memo             \* an earlier completed fusion call: its arguments and outcome

vars == <<pc, exc, dense_results, sparse_results, k, top_n, rrf_scores, fused,
          results, mrr, ret, scores, calls, files, memo>>

-----------------------------------------------------------------------------
(* Bounds of the model *)

MaxLen == 2          \* longest hit list handed to the fusion
MaxBatch == 2        \* most records in an evaluation batch
MaxRetrieved == 3    \* most retrieved chunks in one record

(* Program constants *)

DefaultK == 60       \* rrf_fusion.py:12
DefaultTopN == 10    \* rrf_fusion.py:13

(* Inputs *)

Categories == {"factual", "comparative", "inferential", "multi-hop"}

Chunks == {"chunk1", "chunk2", "chunk3"}
KValues == {-2, 0, DefaultK}
TopNValues == {-1, 0, 2, DefaultTopN}
Urls == {"u1", "u2"}

SeqsUpTo(S, n) == UNION {[1..m -> S] : m \in 0..n}

HitLists == SeqsUpTo(Chunks, MaxLen)

Range(s) == {s[i] : i \in 1..Len(s)}

-----------------------------------------------------------------------------
(* Exact arithmetic standing for Python's float operations *)

Abs(x) == IF x < 0 THEN -x ELSE x

RECURSIVE GCD(_, _)
GCD(a, b) == IF b = 0 THEN a ELSE GCD(b, a % b)

\* n / d for integers, d # 0
Rat(n, d) ==
    LET s == IF d < 0 THEN -1 ELSE 1
        g == GCD(Abs(n), Abs(d))
    IN  <<(s * n) \div g, (s * d) \div g>>

Zero == <<0, 1>>

LCM(a, b) == (a \div GCD(a, b)) * b

\* a + b
RAdd(a, b) ==
    LET l == LCM(a[2], b[2])
    IN  Rat(a[1] * (l \div a[2]) + b[1] * (l \div b[2]), l)

\* a < b
RLess(a, b) ==
    LET l == LCM(a[2], b[2])
    IN  a[1] * (l \div a[2]) < b[1] * (l \div b[2])

\* a / n for a positive integer n
RDivInt(a, n) == Rat(a[1], a[2] * n)

-----------------------------------------------------------------------------
(* reciprocal_rank_fusion, rrf_fusion.py:10-36 *)

\* chunk in rrf_scores
HasKey(d, chunk) == \E i \in 1..Len(d) : d[i].chunk = chunk

\* if chunk not in rrf_scores: rrf_scores[chunk] = 0
\* (a new key goes to the end of the dict's iteration order)
SetDefaultZeroDup(d, chunk) == Append(d, [chunk |-> chunk, score |-> Zero])

SetDefaultZero(d, chunk) ==
    IF HasKey(d, chunk) THEN d
    ELSE Append(d, [chunk |-> chunk, score |-> Zero])

\* rrf_scores[chunk] += x   (an existing key keeps its place)
AddScoreOverwrite(d, chunk, x) ==
    [i \in 1..Len(d) |->
        IF d[i].chunk = chunk THEN [d[i] EXCEPT !.score = x] ELSE d[i]]

AddScore(d, chunk, x) ==
    [i \in 1..Len(d) |->
        IF d[i].chunk = chunk THEN [d[i] EXCEPT !.score = RAdd(@, x)] ELSE d[i]]

\* enumerate(hits) without the start value 1
RECURSIVE RankLoopFromZero(_, _, _, _)
RankLoopFromZero(acc, hits, kk, rank) ==
    IF acc.raised \/ rank > Len(hits) THEN acc
    ELSE IF kk + rank - 1 = 0 THEN [acc EXCEPT !.raised = TRUE]
    ELSE RankLoopFromZero(
            [acc EXCEPT !.scores =
                AddScore(SetDefaultZero(@, hits[rank]), hits[rank], Rat(1, kk + rank - 1))],
            hits, kk, rank + 1)

\* for rank, (chunk, _) in enumerate(hits, 1): ...
\* acc = [scores, raised]; 1 / (k + rank) raises ZeroDivisionError when
\* k + rank = 0 and the function is left at once.
RECURSIVE RankLoop(_, _, _, _)
RankLoop(acc, hits, kk, rank) ==
    IF acc.raised \/ rank > Len(hits) THEN acc
    ELSE IF kk + rank = 0 THEN [acc EXCEPT !.raised = TRUE]
    ELSE RankLoop(
            [acc EXCEPT !.scores =
                AddScore(SetDefaultZero(@, hits[rank]), hits[rank], Rat(1, kk + rank))],
            hits, kk, rank + 1)

\* One step of the stable descending sort: e, which came after every item
\* of sorted in the dict, goes behind every item whose score is >= its own.
InsertDescTiesFirst(sorted, e) ==
    LET p == Cardinality({i \in 1..Len(sorted) : RLess(e.score, sorted[i].score)})
    IN  SubSeq(sorted, 1, p) \o <<e>> \o SubSeq(sorted, p + 1, Len(sorted))

InsertAsc(sorted, e) ==
    LET p == Cardinality({i \in 1..Len(sorted) : ~RLess(e.score, sorted[i].score)})
    IN  SubSeq(sorted, 1, p) \o <<e>> \o SubSeq(sorted, p + 1, Len(sorted))

InsertDesc(sorted, e) ==
    LET p == Cardinality({i \in 1..Len(sorted) : ~RLess(sorted[i].score, e.score)})
    IN  SubSeq(sorted, 1, p) \o <<e>> \o SubSeq(sorted, p + 1, Len(sorted))

\* sorted(rrf_scores.items(), key=lambda x: x[1], reverse=True)
\* Python's sort is stable, also with reverse=True.
RECURSIVE SortedDesc(_)
SortedDesc(items) ==
    IF items = <<>> THEN <<>>
    ELSE InsertDesc(SortedDesc(SubSeq(items, 1, Len(items) - 1)), items[Len(items)])

Min(a, b) == IF a < b THEN a ELSE b
Max(a, b) == IF a < b THEN b ELSE a

\* s[-n:] in place of s[:n]
SliceTail(s, n) ==
    IF n > 0 THEN SubSeq(s, Len(s) - Min(n, Len(s)) + 1, Len(s))
    ELSE IF n = 0 THEN s
    ELSE SubSeq(s, Min(-n, Len(s)) + 1, Len(s))

\* s[:n]
Slice(s, n) ==
    IF n >= 0 THEN SubSeq(s, 1, Min(n, Len(s)))
    ELSE SubSeq(s, 1, Max(Len(s) + n, 0))

\* The whole function: the dict it built, whether it raised, what it returned.
reciprocal_rank_fusion(dense, sparse, kk, n) ==
    LET afterDense  == RankLoop([scores |-> <<>>, raised |-> FALSE], dense, kk, 1)
        afterSparse == RankLoop(afterDense, sparse, kk, 1)
    IN  [raised |-> afterSparse.raised,
         scores |-> afterSparse.scores,
         fused  |-> IF afterSparse.raised THEN <<>>
                    ELSE Slice(SortedDesc(afterSparse.scores), n)]

-----------------------------------------------------------------------------
(* HybridRAG.answer_query, rag_system.py:29-56 *)

DefaultTopK == 10         \* rag_system.py:29
DefaultAnswerTopN == 5    \* rag_system.py:29

Queries == {"q"}
TopKValues == {1, DefaultTopK}
AnswerTopNValues == {-1, 0, 1, DefaultAnswerTopN}
Answers == {"answer", "I don't know"}

\* What a collaborator call may do: raise, or return a value.
Raises == [raised |-> TRUE]
Returns(values) == [raised : {FALSE}, value : values]

\* retrieve(query, top_k) returns at most top_k hits, best first.
RetrievalOutcomes(top_k) ==
    {Raises} \cup Returns({hits \in HitLists : Len(hits) <= top_k})

GenerationOutcomes == {Raises} \cup Returns(Answers)

\* One call made by the function, and whether it raised.
Call(callee, args, raised) == [callee |-> callee, args |-> args, raised |-> raised]

\* The locals of answer_query, and the calls made so far.
Entered ==
    [raised |-> FALSE, calls |-> <<>>, dense_results |-> <<>>, sparse_results |-> <<>>,
     rrf_scores |-> <<>>, fused_results |-> <<>>, context_chunks |-> <<>>, answer |-> ""]

\* dense_results = self.dense_retriever.retrieve(query, top_k), line 34
RetrieveDense(fr, query, top_k, outcome) ==
    LET called == Append(fr.calls, Call("dense_retriever.retrieve", <<query, top_k>>, outcome.raised))
    IN  IF outcome.raised
        THEN [fr EXCEPT !.raised = TRUE, !.calls = called]
        ELSE [fr EXCEPT !.calls = called, !.dense_results = outcome.value]

\* a failed sparse retrieval answered from the dense hits alone
RetrieveSparseFallback(fr, query, top_k, outcome) ==
    IF fr.raised THEN fr
    ELSE [fr EXCEPT !.calls = Append(@, Call("sparse_retriever.retrieve", <<query, top_k>>, outcome.raised)),
                    !.sparse_results = IF outcome.raised THEN <<>> ELSE outcome.value]

\* sparse_results = self.sparse_retriever.retrieve(query, top_k), line 37
RetrieveSparse(fr, query, top_k, outcome) ==
    IF fr.raised THEN fr
    ELSE LET called == Append(fr.calls, Call("sparse_retriever.retrieve", <<query, top_k>>, outcome.raised))
         IN  IF outcome.raised
             THEN [fr EXCEPT !.raised = TRUE, !.calls = called]
             ELSE [fr EXCEPT !.calls = called, !.sparse_results = outcome.value]

\* the two lists handed to the fusion in the other order
FuseSwapped(fr, n) ==
    IF fr.raised THEN fr
    ELSE LET r == reciprocal_rank_fusion(fr.sparse_results, fr.dense_results, DefaultK, n)
         IN  [fr EXCEPT !.calls = Append(@, Call("reciprocal_rank_fusion",
                                                 <<fr.sparse_results, fr.dense_results, n>>,
                                                 FALSE)),
                        !.rrf_scores = r.scores,
                        !.fused_results = r.fused,
                        !.context_chunks = [i \in 1..Len(r.fused) |-> r.fused[i].chunk]]

\* fused_results = reciprocal_rank_fusion(dense_results, sparse_results,
\* top_n=top_n); context_chunks = [chunk for chunk, _ in fused_results],
\* lines 40-41.  k is left at its default, so nothing is divided by zero.
Fuse(fr, n) ==
    IF fr.raised THEN fr
    ELSE LET r == reciprocal_rank_fusion(fr.dense_results, fr.sparse_results, DefaultK, n)
         IN  [fr EXCEPT !.calls = Append(@, Call("reciprocal_rank_fusion",
                                                 <<fr.dense_results, fr.sparse_results, n>>,
                                                 FALSE)),
                        !.rrf_scores = r.scores,
                        !.fused_results = r.fused,
                        !.context_chunks = [i \in 1..Len(r.fused) |-> r.fused[i].chunk]]

\* the generator given the dense hits in place of the fused contents
GenerateFromDense(fr, query, outcome) ==
    IF fr.raised THEN fr
    ELSE [fr EXCEPT !.calls = Append(@, Call("generator.generate", <<query, fr.dense_results>>,
                                            outcome.raised)),
                    !.raised = outcome.raised,
                    !.answer = IF outcome.raised THEN "" ELSE outcome.value]

\* answer = self.generator.generate(query, context_chunks), line 44
Generate(fr, query, outcome) ==
    IF fr.raised THEN fr
    ELSE LET called == Append(fr.calls, Call("generator.generate", <<query, fr.context_chunks>>,
                                       outcome.raised))
         IN  IF outcome.raised
             THEN [fr EXCEPT !.raised = TRUE, !.calls = called]
             ELSE [fr EXCEPT !.calls = called, !.answer = outcome.value]

\* the dict of lines 48-56, without the wall-clock response_time
QueryResult(fr, query) ==
    [query |-> query, answer |-> fr.answer, context_chunks |-> fr.context_chunks,
     dense_results |-> fr.dense_results, sparse_results |-> fr.sparse_results,
     fused_results |-> fr.fused_results]

\* The whole function, given what each collaborator does when called.
answer_query(query, top_k, n, dense, sparse, generated) ==
    Generate(Fuse(RetrieveSparse(RetrieveDense(Entered, query, top_k, dense),
                                 query, top_k, sparse),
                  n),
             query, generated)

-----------------------------------------------------------------------------
(* Evaluator.mean_reciprocal_rank, metrics.py:18-27 *)

\* A record as mean_reciprocal_rank reads it: the urls of its
\* retrieved_chunks, in order, and its ground_truth_url.
Records == [retrieved_urls : SeqsUpTo(Urls, MaxRetrieved), ground_truth_url : Urls]

Batches == SeqsUpTo(Records, MaxBatch)

\* the last position of x in place of the first
RECURSIVE ListIndexLast(_, _, _)
ListIndexLast(s, x, i) ==
    IF s[Len(s) + 1 - i] = x THEN Len(s) + 1 - i ELSE ListIndexLast(s, x, i + 1)

\* s.index(x) + 1 for x in s: scan from the front, started at i = 1
RECURSIVE ListIndex(_, _, _)
ListIndex(s, x, i) == IF s[i] = x THEN i ELSE ListIndex(s, x, i + 1)

\* for result in results: ... rr_sum += 1 / rank
RECURSIVE RRLoop(_, _, _)
RRLoop(rr_sum, batch, i) ==
    IF i > Len(batch) THEN rr_sum
    ELSE LET retrieved_urls == batch[i].retrieved_urls
             ground_truth_url == batch[i].ground_truth_url
         IN  RRLoop(IF ground_truth_url \in Range(retrieved_urls)
                    THEN RAdd(rr_sum, Rat(1, ListIndex(retrieved_urls, ground_truth_url, 1)))
                    ELSE rr_sum,
                    batch, i + 1)

\* the sum divided by the number of records that found their ground truth
mean_reciprocal_rankOverFound(batch) ==
    LET found == Cardinality({i \in 1..Len(batch) :
                     batch[i].ground_truth_url \in Range(batch[i].retrieved_urls)})
    IN  IF found > 0 THEN RDivInt(RRLoop(Zero, batch, 1), found) ELSE Zero

\* return rr_sum / len(results) if results else 0
mean_reciprocal_rank(batch) ==
    IF batch # <<>> THEN RDivInt(RRLoop(Zero, batch, 1), Len(batch)) ELSE Zero

-----------------------------------------------------------------------------
(* Evaluator.semantic_similarity and answer_relevance, metrics.py:29-42 *)

\* a - b, |a|, n/d written as a rational
RSub(a, b) == RAdd(a, <<-b[1], b[2]>>)
RAbs(a) == <<Abs(a[1]), a[2]>>
RLeq(a, b) == ~RLess(b, a)
RMul(a, b) == Rat(a[1] * b[1], a[2] * b[2])

RECURSIVE RSum(_, _)
RSum(xs, upto) == IF upto = 0 THEN Zero ELSE RAdd(RSum(xs, upto - 1), xs[upto])

\* np.mean(xs) for a non-empty xs
Mean(xs) == RDivInt(RSum(xs, Len(xs)), Len(xs))

\* The embedding collaborator and cosine_similarity are external: diagonal
\* is the sequence similarities[i, i], the cosine of the i-th pair.
\* With no pair at all, cosine_similarity rejects the empty arrays with a
\* ValueError; otherwise the function returns the mean of the diagonal.
semantic_similarity(diagonal) ==
    IF diagonal = <<>> THEN [raised |-> TRUE, value |-> Zero]
    ELSE [raised |-> FALSE, value |-> Mean(diagonal)]

answer_relevance(diagonal) ==
    IF diagonal = <<>> THEN [raised |-> TRUE, value |-> Zero]
    ELSE [raised |-> FALSE, value |-> Mean(diagonal)]

-----------------------------------------------------------------------------
(* Evaluator.error_analysis, metrics.py:44-74 *)

Half == <<1, 2>>     \* 0.5, metrics.py:64 and 67

\* A record as error_analysis reads it.  cos_answer_truth and
\* cos_answer_query are the cosines the embedding collaborator yields for
\* (answer, ground_truth) and (answer, query).
ErrorRecords ==
    [retrieved_urls   : {<<"u2">>, <<"u2", "u1">>},
     ground_truth_url : {"u1"},
     cos_answer_truth : {<<2, 5>>, Half, <<9, 10>>},
     cos_answer_query : {<<2, 5>>, Half},
     category         : Categories]

ErrorBatches == SeqsUpTo(ErrorRecords, MaxBatch)

\* error_categories and category_errors as created at lines 46-52
NoErrorsYet ==
    [overall |-> [retrieval_failure |-> 0, generation_hallucination |-> 0,
                  context_irrelevant |-> 0, no_error |-> 0],
     by_category |-> [cat \in Categories |->
                        [retrieval |-> 0, generation |-> 0, context |-> 0, none |-> 0]]]

\* the breakdown cell taken from the first question category
CountFirstCategory(acc, kind, category, cell) ==
    [overall |-> [acc.overall EXCEPT ![kind] = @ + 1],
     by_category |-> [acc.by_category EXCEPT !["factual"][cell] = @ + 1]]

\* error_categories[kind] += 1; category_errors[category][cell] += 1
Count(acc, kind, category, cell) ==
    [overall |-> [acc.overall EXCEPT ![kind] = @ + 1],
     by_category |-> [acc.by_category EXCEPT ![category][cell] = @ + 1]]

\* the second test written as "if" in place of "elif"
ErrorStepSeparateIfs(acc, result) ==
    LET sem_sim  == semantic_similarity(<<result.cos_answer_truth>>).value
        rel      == answer_relevance(<<result.cos_answer_query>>).value
        category == result.category
        first    == IF result.ground_truth_url \notin Range(result.retrieved_urls)
                    THEN Count(acc, "retrieval_failure", category, "retrieval")
                    ELSE acc
    IN  IF RLess(sem_sim, Half)
        THEN Count(first, "generation_hallucination", category, "generation")
        ELSE IF RLess(rel, Half)
        THEN Count(first, "context_irrelevant", category, "context")
        ELSE Count(first, "no_error", category, "none")

\* the thresholds tested with <= in place of <
ErrorStepAtMostHalf(acc, result) ==
    LET sem_sim  == semantic_similarity(<<result.cos_answer_truth>>).value
        rel      == answer_relevance(<<result.cos_answer_query>>).value
        category == result.category
    IN  IF result.ground_truth_url \notin Range(result.retrieved_urls)
        THEN Count(acc, "retrieval_failure", category, "retrieval")
        ELSE IF RLeq(sem_sim, Half)
        THEN Count(acc, "generation_hallucination", category, "generation")
        ELSE IF RLeq(rel, Half)
        THEN Count(acc, "context_irrelevant", category, "context")
        ELSE Count(acc, "no_error", category, "none")

\* the body of "for result in results", lines 55-72
ErrorStep(acc, result) ==
    LET retrieved_urls == result.retrieved_urls
        gt_url   == result.ground_truth_url
        sem_sim  == semantic_similarity(<<result.cos_answer_truth>>).value
        rel      == answer_relevance(<<result.cos_answer_query>>).value
        category == result.category
    IN  IF gt_url \notin Range(retrieved_urls)
        THEN Count(acc, "retrieval_failure", category, "retrieval")
        ELSE IF RLess(sem_sim, Half)
        THEN Count(acc, "generation_hallucination", category, "generation")
        ELSE IF RLess(rel, Half)
        THEN Count(acc, "context_irrelevant", category, "context")
        ELSE Count(acc, "no_error", category, "none")

RECURSIVE ErrorLoop(_, _, _)
ErrorLoop(acc, batch, i) ==
    IF i > Len(batch) THEN acc ELSE ErrorLoop(ErrorStep(acc, batch[i]), batch, i + 1)

\* return {'overall': error_categories, 'by_category': category_errors}
error_analysis(batch) == ErrorLoop(NoErrorsYet, batch, 1)

-----------------------------------------------------------------------------
(* Evaluator.confidence_calibration, metrics.py:116-151 *)

NumBinEdges == 11    \* np.linspace(0, 1, 11), metrics.py:136

SevenTenths == <<7, 10>>     \* 0.7, metrics.py:129

\* np.mean of an empty array: nan, with a warning and no exception
NaN == <<0, 0>>

\* A record as confidence_calibration reads it.
CalibrationRecords ==
    [cos_answer_truth : {<<-1, 2>>, Zero, SevenTenths, <<9, 10>>, <<1, 1>>},
     cos_answer_query : {Zero, <<1, 10>>, <<1, 1>>}]

CalibrationBatches == SeqsUpTo(CalibrationRecords, MaxBatch)

Diagonal(batch, field) == [i \in 1..Len(batch) |-> batch[i][field]]

\* correctness tested with >= in place of >
CalibrationPointAtLeast(result) ==
    LET sem_sim == semantic_similarity(<<result.cos_answer_truth>>).value
        rel     == answer_relevance(<<result.cos_answer_query>>).value
    IN  [confidence |-> RDivInt(RAdd(sem_sim, rel), 2),
         correct    |-> IF RLeq(SevenTenths, sem_sim) THEN 1 ELSE 0]

\* correctness granted from a similarity of 0.3 upwards
CalibrationPointLowBar(result) ==
    LET sem_sim == semantic_similarity(<<result.cos_answer_truth>>).value
        rel     == answer_relevance(<<result.cos_answer_query>>).value
    IN  [confidence |-> RDivInt(RAdd(sem_sim, rel), 2),
         correct    |-> IF RLess(<<3, 10>>, sem_sim) THEN 1 ELSE 0]

\* the body of "for result in results", lines 122-129
CalibrationPoint(result) ==
    LET sem_sim == semantic_similarity(<<result.cos_answer_truth>>).value
        rel     == answer_relevance(<<result.cos_answer_query>>).value
    IN  [confidence |-> RDivInt(RAdd(sem_sim, rel), 2),
         correct    |-> IF RLess(SevenTenths, sem_sim) THEN 1 ELSE 0]

\* bins = np.linspace(0, 1, 11); bins[i] for the Python index i = 0..10
BinEdge(i) == Rat(i, NumBinEdges - 1)

\* the upper edge included
MaskClosed(confidences, i) ==
    {j \in 1..Len(confidences) :
        RLeq(BinEdge(i), confidences[j]) /\ RLeq(confidences[j], BinEdge(i + 1))}

\* the first bin taking every confidence below its upper edge
MaskFirstOpenBelow(confidences, i) ==
    {j \in 1..Len(confidences) :
        /\ i = 0 \/ RLeq(BinEdge(i), confidences[j])
        /\ RLess(confidences[j], BinEdge(i + 1))}

\* mask = (confidences >= bins[i]) & (confidences < bins[i+1])
Mask(confidences, i) ==
    {j \in 1..Len(confidences) :
        RLeq(BinEdge(i), confidences[j]) /\ RLess(confidences[j], BinEdge(i + 1))}

\* np.mean(xs[mask]) for a non-empty mask
RECURSIVE MaskedSum(_, _, _)
MaskedSum(xs, mask, upto) ==
    IF upto = 0 THEN Zero
    ELSE RAdd(MaskedSum(xs, mask, upto - 1), IF upto \in mask THEN xs[upto] ELSE Zero)

MaskedMean(xs, mask) == RDivInt(MaskedSum(xs, mask, Len(xs)), Cardinality(mask))

\* the weight np.sum(mask) without the division by len(confidences)
BinTermUnweighted(confidences, correctness, mask) ==
    RMul(RAbs(RSub(MaskedMean(confidences, mask), MaskedMean(correctness, mask))),
         Rat(Cardinality(mask), 1))

\* np.abs(avg_conf - avg_acc) * (np.sum(mask) / len(confidences))
BinTerm(confidences, correctness, mask) ==
    LET avg_conf == MaskedMean(confidences, mask)
        avg_acc  == MaskedMean(correctness, mask)
    IN  RMul(RAbs(RSub(avg_conf, avg_acc)), Rat(Cardinality(mask), Len(confidences)))

\* for i in range(len(bins)-1): ...   (i is the Python index, from 0)
RECURSIVE ECELoop(_, _, _, _)
ECELoop(ece, confidences, correctness, i) ==
    IF i >= NumBinEdges - 1 THEN ece
    ELSE LET mask == Mask(confidences, i)
         IN  ECELoop(IF Cardinality(mask) > 0
                     THEN RAdd(ece, BinTerm(confidences, correctness, mask))
                     ELSE ece,
                     confidences, correctness, i + 1)

\* The whole function.  Nothing in it raises: for an empty batch every
\* mask is empty, ece stays 0 and the two means are nan.
confidence_calibration(batch) ==
    LET points      == [i \in 1..Len(batch) |-> CalibrationPoint(batch[i])]
        confidences == [i \in 1..Len(batch) |-> points[i].confidence]
        correctness == [i \in 1..Len(batch) |-> Rat(points[i].correct, 1)]
    IN  [confidences |-> confidences,
         correctness |-> [i \in 1..Len(batch) |-> points[i].correct],
         expected_calibration_error |-> ECELoop(Zero, confidences, correctness, 0),
         mean_confidence |-> IF batch = <<>> THEN NaN ELSE Mean(confidences),
         accuracy |-> IF batch = <<>> THEN NaN ELSE Mean(correctness)]

-----------------------------------------------------------------------------
(* Python string operations.  A text is the sequence of its characters. *)

Whitespace == {" ", "\n"}

Digits == {"0", "1", "2", "3", "4", "5", "6", "7", "8", "9"}

DigitValue(c) ==
    CASE c = "0" -> 0 [] c = "1" -> 1 [] c = "2" -> 2 [] c = "3" -> 3 [] c = "4" -> 4
      [] c = "5" -> 5 [] c = "6" -> 6 [] c = "7" -> 7 [] c = "8" -> 8 [] c = "9" -> 9

\* s.strip()
RECURSIVE Strip(_)
Strip(s) ==
    IF s = <<>> THEN s
    ELSE IF s[1] \in Whitespace THEN Strip(Tail(s))
    ELSE IF s[Len(s)] \in Whitespace THEN Strip(SubSeq(s, 1, Len(s) - 1))
    ELSE s

\* the longest prefix of s made of characters in (keep = TRUE) or not in
\* (keep = FALSE) the set cs
RECURSIVE Span(_, _, _)
Span(s, cs, keep) ==
    IF s = <<>> \/ ((s[1] \in cs) # keep) THEN <<>>
    ELSE <<s[1]>> \o Span(Tail(s), cs, keep)

Drop(s, n) == SubSeq(s, n + 1, Len(s))

\* s.split('\n'): the pieces between newlines, empty ones included
RECURSIVE SplitLines(_)
SplitLines(s) ==
    LET line == Span(s, {"\n"}, FALSE)
    IN  IF Len(line) = Len(s) THEN <<s>>
        ELSE <<line>> \o SplitLines(Drop(s, Len(line) + 1))

\* s.split(): the maximal runs of non-whitespace
RECURSIVE SplitWords(_)
SplitWords(s) ==
    LET rest == Drop(s, Len(Span(s, Whitespace, TRUE)))
        word == Span(rest, Whitespace, FALSE)
    IN  IF rest = <<>> THEN <<>>
        ELSE <<word>> \o SplitWords(Drop(rest, Len(word)))

\* ' '.join(parts)
RECURSIVE JoinSpace(_)
JoinSpace(parts) ==
    IF parts = <<>> THEN <<>>
    ELSE IF Len(parts) = 1 THEN parts[1]
    ELSE parts[1] \o <<" ">> \o JoinSpace(Tail(parts))

\* sub in s
Contains(s, sub) ==
    \E i \in 0..(Len(s) - Len(sub)) : SubSeq(s, i + 1, i + Len(sub)) = sub

\* s.lower(), on the letters the texts of the model use
Lower(s) ==
    [i \in 1..Len(s) |->
        CASE s[i] = "I" -> "i" [] s[i] = "F" -> "f" [] s[i] = "C" -> "c"
          [] s[i] = "R" -> "r" [] s[i] = "P" -> "p" [] OTHER -> s[i]]

\* re.findall(r'\d', s): every digit on its own
RECURSIVE FindallSingleDigits(_)
FindallSingleDigits(s) ==
    LET rest == Drop(s, Len(Span(s, Digits, FALSE)))
    IN  IF rest = <<>> THEN <<>>
        ELSE <<<<rest[1]>>>> \o FindallSingleDigits(Tail(rest))

\* re.findall(r'\d+', s): the maximal runs of digits, left to right
RECURSIVE FindallDigits(_)
FindallDigits(s) ==
    LET rest == Drop(s, Len(Span(s, Digits, FALSE)))
        run  == Span(rest, Digits, TRUE)
    IN  IF rest = <<>> THEN <<>>
        ELSE <<run>> \o FindallDigits(Drop(rest, Len(run)))

\* int(run) for a run of digits
RECURSIVE int(_)
int(run) ==
    IF run = <<>> THEN 0
    ELSE 10 * int(SubSeq(run, 1, Len(run) - 1)) + DigitValue(run[Len(run)])

-----------------------------------------------------------------------------
(* Generator.generate, generation.py:16-32 *)

IDontKnow == <<"I", " ", "d", "o", "n", "'", "t", " ", "k", "n", "o", "w">>

\* the model's text returned without the grounding check
generateUngrounded(raw, context) == Strip(raw)

\* raw is result[0]['generated_text'], the text the model produced.
generate(raw, context) ==
    LET context_text  == JoinSpace(context)
        answer        == Strip(raw)
        context_lower == Lower(context_text)
        answer_lower  == Lower(answer)
        words         == SplitWords(answer_lower)
    IN  IF Contains(answer, IDontKnow) \/ Len(SplitWords(answer)) < 3 THEN answer
        ELSE IF ~\E i \in 1..Len(words) :
                    Len(words[i]) > 3 /\ Contains(context_lower, words[i])
        THEN IDontKnow
        ELSE answer

-----------------------------------------------------------------------------
(* Evaluator.llm_as_judge, metrics.py:76-114 *)

NumCriteria == 4     \* len(nums) >= 4, metrics.py:98
DefaultScore == 3    \* scores[key].append(3), metrics.py:106

Criteria == <<"factual_accuracy", "completeness", "relevance", "coherence">>

ParsingFailed == <<"P", "a", "r", "s", "i", "n", "g", " ", "f", "a", "i", "l", "e", "d">>

\* What the judge model may produce for one record's prompt: nothing, text
\* without digits, three, four or five tokens, a two-digit token, the
\* prompt's output format, a refusal followed by scores, a leading newline,
\* and a second line with or without digits.
JudgeOutputs ==
    { <<>>,
      <<"\n">>,
      <<"x">>,
      <<"1", ",", "2", ",", "3">>,
      <<"1", ",", "2", ",", "3", ",", "4">>,
      <<"5", ",", "4", ",", "3", ",", "2", ",", "1">>,
      <<"1", "2", ",", "3", ",", "4", ",", "5">>,
      <<"F", ":", " ", "5", ",", " ", "C", ":", " ", "4", ",", " ", "R", ":", " ", "3", ",", " ", "C", ":", " ", "2">>,
      <<"I", " ", "d", "o", "n", "'", "t", " ", "k", "n", "o", "w", " ", "2", ",", "3", ",", "4", ",", "5">>,
      <<"\n", "1", ",", "2", ",", "3", ",", "4">>,
      <<"1", ",", "2", ",", "3", ",", "4", "\n", "o", "k">>,
      <<"5", ",", "4", ",", "3", ",", "2", ",", "1", "\n", "o", "k">>,
      <<"1", "2", ",", "3", ",", "4", ",", "5", "\n", "o", "k">>,
      <<"1", ",", "2", ",", "3", "\n", "o", "k">>,
      <<"x", "\n", "9", ",", "9", ",", "9", ",", "9">>,
      <<"1", ",", "2", ",", "3", "\n", "9", ",", "9", ",", "9", ",", "9">> }

JudgeBatches == SeqsUpTo(JudgeOutputs, MaxBatch)

\* scores and explanations as created at lines 78-79
NoScoresYet ==
    [scores |-> [key \in Range(Criteria) |-> <<>>], explanations |-> <<>>]

\* the default given to the first criterion only
AppendDefaultsFirstOnly(sc) ==
    [sc EXCEPT ![Criteria[1]] = Append(@, DefaultScore)]

\* for key in scores: scores[key].append(3)
AppendDefaults(sc) == [key \in DOMAIN sc |-> Append(sc[key], DefaultScore)]

\* scores[...].append(int(nums[0])) ... append(int(nums[3])), lines 99-102
AppendParsed(sc, nums) ==
    [key \in DOMAIN sc |->
        Append(sc[key],
               int(nums[CHOOSE n \in 1..NumCriteria : Criteria[n] = key]))]

\* The body of "for result in results", lines 82-111.  raw is what the
\* judge model produced for the record's prompt; the judge is called with
\* the context [""].  int() of a run of digits raises only for runs longer
\* than the interpreter's limit of 4300 digits, which the at most 200
\* generated tokens cannot reach, and nothing else between try and except
\* raises: the handler of lines 108-111 is never entered.
JudgeStep(acc, raw) ==
    LET evaluation == Strip(generate(raw, << <<>> >>))
        lines      == SplitLines(evaluation)
        score_line == lines[1]
        exp_line   == IF Len(lines) > 1 THEN JoinSpace(Tail(lines)) ELSE <<>>
        nums       == FindallDigits(score_line)
    IN  [scores |-> IF Len(nums) >= NumCriteria
                    THEN AppendParsed(acc.scores, nums)
                    ELSE AppendDefaults(acc.scores),
         explanations |-> Append(acc.explanations, exp_line)]

RECURSIVE JudgeLoop(_, _, _)
JudgeLoop(acc, batch, i) ==
    IF i > Len(batch) THEN acc ELSE JudgeLoop(JudgeStep(acc, batch[i]), batch, i + 1)

IntMean(xs) == IF xs = <<>> THEN NaN ELSE Mean([i \in 1..Len(xs) |-> <<xs[i], 1>>])

\* The whole function: its score lists and what it returns.
llm_as_judge(batch) ==
    LET final == JudgeLoop(NoScoresYet, batch, 1)
    IN  [scores |-> final.scores,
         returned |-> [average_scores |->
                          [key \in Range(Criteria) |-> IntMean(final.scores[key])],
                       explanations |-> final.explanations]]

-----------------------------------------------------------------------------
(* Evaluator.evaluate, metrics.py:153-176 *)

\* A record as evaluate's metrics read it: the urls of its retrieved
\* chunks, its ground-truth url, the cosines the embedding collaborator
\* yields for (answer, ground_truth) and (answer, query), the same for
\* every call within one evaluate, its question category, and the text the
\* judge model produces for its prompt.
EvaluationRecords ==
    [retrieved_urls   : {<<"u1", "u2">>, <<"u2">>, <<"u2", "u1">>},
     ground_truth_url : {"u1"},
     cos_answer_truth : {<<2, 5>>, <<3, 5>>, <<9, 10>>},
     cos_answer_query : {<<2, 5>>, <<4, 5>>},
     category         : {"factual"},
     judge_output     : {<<"1", ",", "2", ",", "3", ",", "4">>}]

EvaluationBatches == SeqsUpTo(EvaluationRecords, MaxBatch)

\* The whole function.  On an empty batch mean_reciprocal_rank returns 0
\* and semantic_similarity then raises, at line 156.
evaluate(batch) ==
    LET mrr_        == mean_reciprocal_rank(batch)
        sem_sim     == semantic_similarity(Diagonal(batch, "cos_answer_truth"))
        rel         == answer_relevance(Diagonal(batch, "cos_answer_query"))
        llm_judge   == llm_as_judge(Diagonal(batch, "judge_output"))
        calibration == confidence_calibration(batch)
    IN  IF sem_sim.raised \/ rel.raised THEN [raised |-> TRUE]
        ELSE [raised |-> FALSE,
              scores |-> llm_judge.scores,
              metrics |->
                 [MRR |-> mrr_,
                  Semantic_Similarity |-> sem_sim.value,
                  Answer_Relevance |-> rel.value,
                  Error_Analysis |-> error_analysis(batch),
                  LLM_as_Judge |-> llm_judge.returned.average_scores,
                  Confidence_Calibration |->
                     [ECE |-> calibration.expected_calibration_error,
                      Mean_Confidence |-> calibration.mean_confidence,
                      Accuracy |-> calibration.accuracy,
                      confidences |-> calibration.confidences,
                      correctness |-> calibration.correctness]]]

-----------------------------------------------------------------------------
(* EvaluationPipeline.run_evaluation, evaluation_pipeline.py:24-51 *)

MaxRuns == 2         \* most runs of the pipeline on one output_dir

Placeholder == "placeholder"    \* evaluation_pipeline.py:40

\* One entry of the QA dataset together with what the collaborators do
\* while its question is processed: the retrievals and the generator of
\* answer_query, the embedder's cosines, the judge model's text.
QAItems ==
    [question         : Queries,
     source_url       : {"u1", Placeholder},
     category         : {"factual"},
     dense            : {Raises} \cup Returns({<<>>, <<"chunk1">>}),
     sparse           : Returns({<<>>, <<"chunk2">>}),
     generated        : Returns({"answer"}),
     cos_answer_truth : {<<2, 5>>, <<9, 10>>},
     cos_answer_query : {<<4, 5>>},
     judge_output     : {<<"x">>}]

QADatasets == SeqsUpTo(QAItems, MaxBatch)

\* every chunk given the url of the first source
RetrievedChunksFirstUrl(context_chunks) ==
    [i \in 1..Len(context_chunks) |-> [url |-> "u1", text |-> context_chunks[i]]]

\* [{'url': 'placeholder', 'text': chunk} for chunk in result['context_chunks']]
RetrievedChunks(context_chunks) ==
    [i \in 1..Len(context_chunks) |-> [url |-> Placeholder, text |-> context_chunks[i]]]

\* The record of lines 33-40 for one QA item whose answer_query returned fr.
\* retrieved_urls is the list the metrics build from retrieved_chunks
\* (metrics.py:22 and 55); the cosines and the judge text are what the
\* collaborators yield for this record's texts.
PipelineRecord(qa, fr) ==
    LET retrieved_chunks == RetrievedChunks(fr.context_chunks)
    IN  [query |-> qa.question, answer |-> fr.answer,
         context_chunks |-> fr.context_chunks,
         ground_truth_url |-> qa.source_url,
         category |-> qa.category,
         retrieved_chunks |-> retrieved_chunks,
         retrieved_urls |-> [i \in 1..Len(retrieved_chunks) |-> retrieved_chunks[i].url],
         cos_answer_truth |-> qa.cos_answer_truth,
         cos_answer_query |-> qa.cos_answer_query,
         judge_output |-> qa.judge_output]

\* for qa in qa_data: ..., lines 32-41; an exception of answer_query ends
\* the run
RECURSIVE AnswerLoop(_, _, _)
AnswerLoop(acc, qa_data, i) ==
    IF acc.raised \/ i > Len(qa_data) THEN acc
    ELSE LET qa == qa_data[i]
             fr == answer_query(qa.question, DefaultTopK, DefaultAnswerTopN,
                                qa.dense, qa.sparse, qa.generated)
             called == Append(acc.calls, Call("rag.answer_query", <<qa.question>>, fr.raised))
         IN  AnswerLoop(IF fr.raised
                        THEN [acc EXCEPT !.raised = TRUE, !.calls = called]
                        ELSE [acc EXCEPT !.calls = called,
                                         !.results = Append(@, PipelineRecord(qa, fr))],
                        qa_data, i + 1)

\* the plots written before the PDF report
WriteReportsPlotsFirst(fs) ==
    LET run == fs.plots + 1
    IN  [calls |-> <<Call("generate_csv_report", <<"reports//results.csv">>, FALSE),
                     Call("generate_plots", <<"reports//plots.png">>, FALSE),
                     Call("generate_pdf_report",
                          <<"reports//plots.png", "reports//report.pdf">>, FALSE)>>,
         files |-> [csv |-> run, pdf |-> run, pdf_image |-> run, plots |-> run]]

\* Lines 47-49.  The run that writes version fs.plots + 1 of the plot image
\* writes results.csv, then report.pdf, then plots.png; generate_pdf_report
\* embeds the image at plots_path if os.path.exists(plots_path), lines
\* 121-125.  The report writers are taken to succeed.
WriteReports(fs) ==
    LET run        == fs.plots + 1
        afterCsv   == [fs EXCEPT !.csv = run]
        afterPdf   == [afterCsv EXCEPT !.pdf = run,
                                       !.pdf_image = IF afterCsv.plots # 0
                                                     THEN afterCsv.plots ELSE 0]
        afterPlots == [afterPdf EXCEPT !.plots = run]
    IN  [calls |-> <<Call("generate_csv_report", <<"reports//results.csv">>, FALSE),
                     Call("generate_pdf_report",
                          <<"reports//plots.png", "reports//report.pdf">>, FALSE),
                     Call("generate_plots", <<"reports//plots.png">>, FALSE)>>,
         files |-> afterPlots]

\* self.rag.load_corpus(corpus_path) and results = [], lines 27-31
Loaded ==
    [raised |-> FALSE, results |-> <<>>,
     calls |-> <<Call("rag.load_corpus", <<"corpus_path">>, FALSE)>>]

\* Lines 44-51, after the loop left answered and evaluate gave measured
\* (not called when the loop raised), on the files fs of output_dir.
Reported(answered, measured, fs) ==
    LET called  == Append(answered.calls,
                          Call("evaluator.evaluate", <<"results">>, measured.raised))
        reports == WriteReports(fs)
    IN  IF answered.raised
        THEN [raised |-> TRUE, exc |-> "CollaboratorError", calls |-> answered.calls,
              results |-> answered.results, files |-> fs]
        ELSE IF measured.raised
        THEN [raised |-> TRUE, exc |-> "ValueError", calls |-> called,
              results |-> answered.results, files |-> fs]
        ELSE [raised |-> FALSE, exc |-> "none", calls |-> called \o reports.calls,
              results |-> answered.results, metrics |-> measured.metrics,
              files |-> reports.files]

-----------------------------------------------------------------------------
(* State machine *)

NoMemo == [set |-> FALSE]

\* Before the first run output_dir holds no report.  A file is the number
\* of the version written to its path, 0 while the path does not exist;
\* pdf_image is the version of the plot image inside report.pdf, 0 when
\* the report has no visualizations page.
NoFiles == [csv |-> 0, pdf |-> 0, pdf_image |-> 0, plots |-> 0]

Init ==
    /\ pc = "idle"
    /\ exc = "none"
    /\ dense_results = <<>>
    /\ sparse_results = <<>>
    /\ k = DefaultK
    /\ top_n = DefaultTopN
    /\ rrf_scores = <<>>
    /\ fused = <<>>
    /\ results = <<>>
    /\ mrr = Zero
    /\ ret = <<>>
    /\ scores = <<>>
    /\ calls = <<>>
    /\ files = NoFiles
    /\ memo = NoMemo

\* the sort with equal scores in the reverse of their dict order
RECURSIVE SortedDescTiesFirst(_)
SortedDescTiesFirst(items) ==
    IF items = <<>> THEN <<>>
    ELSE InsertDescTiesFirst(SortedDescTiesFirst(SubSeq(items, 1, Len(items) - 1)),
                             items[Len(items)])

\* a fusion whose order of equal scores varies from call to call
CallRRFAnyTieOrder ==
    /\ pc = "idle"
    /\ \E dense \in HitLists, sparse \in HitLists, kk \in KValues, n \in TopNValues :
         LET r == reciprocal_rank_fusion(dense, sparse, kk, n)
         IN  /\ dense_results' = dense
             /\ sparse_results' = sparse
             /\ k' = kk
             /\ top_n' = n
             /\ rrf_scores' = r.scores
             /\ fused' \in {r.fused,
                             IF r.raised THEN <<>>
                             ELSE Slice(SortedDescTiesFirst(r.scores), n)}
             /\ exc' = IF r.raised THEN "ZeroDivisionError" ELSE "none"
    /\ pc' = "reciprocal_rank_fusion"
    /\ UNCHANGED <<results, mrr, ret, scores, calls, files, memo>>

\* A caller invokes reciprocal_rank_fusion(dense, sparse, k, top_n).
CallRRF ==
    /\ pc = "idle"
    /\ \E dense \in HitLists, sparse \in HitLists, kk \in KValues, n \in TopNValues :
         LET r == reciprocal_rank_fusion(dense, sparse, kk, n)
         IN  /\ dense_results' = dense
             /\ sparse_results' = sparse
             /\ k' = kk
             /\ top_n' = n
             /\ rrf_scores' = r.scores
             /\ fused' = r.fused
             /\ exc' = IF r.raised THEN "ZeroDivisionError" ELSE "none"
    /\ pc' = "reciprocal_rank_fusion"
    /\ UNCHANGED <<results, mrr, ret, scores, calls, files, memo>>

\* A caller invokes Evaluator.mean_reciprocal_rank(results).
CallMRR ==
    /\ pc = "idle"
    /\ \E batch \in Batches :
         /\ results' = batch
         /\ mrr' = mean_reciprocal_rank(batch)
    /\ pc' = "mean_reciprocal_rank"
    /\ exc' = "none"
    /\ UNCHANGED <<dense_results, sparse_results, k, top_n, rrf_scores, fused, ret, scores, calls, files, memo>>

\* The caller takes the result; the call's locals are gone.
Return ==
    /\ pc # "idle"
    /\ pc' = "idle"
    /\ exc' = "none"
    /\ dense_results' = <<>>
    /\ sparse_results' = <<>>
    /\ k' = DefaultK
    /\ top_n' = DefaultTopN
    /\ rrf_scores' = <<>>
    /\ fused' = <<>>
    /\ results' = <<>>
    /\ mrr' = Zero
    /\ ret' = <<>>
    /\ scores' = <<>>
    /\ calls' = <<>>
    /\ UNCHANGED <<files, memo>>

Next == CallRRF \/ CallMRR \/ Return

Spec == Init /\ [][Next]_vars

-----------------------------------------------------------------------------
(* Repeated fusion calls: an observer keeps the arguments and the outcome  *)
(* of one completed call fuse(A, B), made with the default k and top_n on  *)
(* lists that are empty or hold a single hit.                              *)

ObservedLists == {<<>>} \cup {<<chunk>> : chunk \in Chunks}

Remember ==
    /\ pc = "reciprocal_rank_fusion"
    /\ ~memo.set
    /\ k = DefaultK /\ top_n = DefaultTopN
    /\ dense_results \in ObservedLists /\ sparse_results \in ObservedLists
    /\ memo' = [set |-> TRUE, dense |-> dense_results, sparse |-> sparse_results,
                k |-> k, top_n |-> top_n, fused |-> fused, exc |-> exc]
    /\ UNCHANGED <<pc, exc, dense_results, sparse_results, k, top_n, rrf_scores,
                   fused, results, mrr, ret, scores, calls, files>>

NextRepeated == CallRRF \/ Remember \/ Return

SpecRepeated == Init /\ [][NextRepeated]_vars

-----------------------------------------------------------------------------
(* Answering one query *)

\* A caller invokes HybridRAG.answer_query(query, top_k, top_n); each
\* collaborator raises or returns when it is called.
CallAnswerQuery ==
    /\ pc = "idle"
    /\ \E query \in Queries, kk \in TopKValues, n \in AnswerTopNValues :
       \E dense \in RetrievalOutcomes(kk), sparse \in RetrievalOutcomes(kk),
          generated \in GenerationOutcomes :
         LET fr == answer_query(query, kk, n, dense, sparse, generated)
         IN  /\ calls' = fr.calls
             /\ dense_results' = fr.dense_results
             /\ sparse_results' = fr.sparse_results
             /\ rrf_scores' = fr.rrf_scores
             /\ fused' = fr.fused_results
             /\ top_n' = n
             /\ exc' = IF fr.raised THEN "CollaboratorError" ELSE "none"
             /\ ret' = IF fr.raised THEN <<>> ELSE QueryResult(fr, query)
    /\ pc' = "answer_query"
    /\ UNCHANGED <<k, results, mrr, scores, files, memo>>

NextAnswerQuery == CallAnswerQuery \/ Return

SpecAnswerQuery == Init /\ [][NextAnswerQuery]_vars

-----------------------------------------------------------------------------
(* The evaluation metrics, one specification for each *)

\* A caller invokes Evaluator.error_analysis(results).
CallErrorAnalysis ==
    /\ pc = "idle"
    /\ \E batch \in ErrorBatches :
         /\ results' = batch
         /\ ret' = error_analysis(batch)
    /\ pc' = "error_analysis"
    /\ exc' = "none"
    /\ UNCHANGED <<dense_results, sparse_results, k, top_n, rrf_scores, fused, mrr, scores, calls, files, memo>>

NextErrorAnalysis == CallErrorAnalysis \/ Return

SpecErrorAnalysis == Init /\ [][NextErrorAnalysis]_vars

\* A caller invokes Evaluator.confidence_calibration(results).
CallCalibration ==
    /\ pc = "idle"
    /\ \E batch \in CalibrationBatches :
         /\ results' = batch
         /\ ret' = confidence_calibration(batch)
    /\ pc' = "confidence_calibration"
    /\ exc' = "none"
    /\ UNCHANGED <<dense_results, sparse_results, k, top_n, rrf_scores, fused, mrr, scores, calls, files, memo>>

\* A caller invokes Evaluator.semantic_similarity on the batch's answers
\* and ground truths, as evaluate does at line 156.
CallSimilarity ==
    /\ pc = "idle"
    /\ \E batch \in CalibrationBatches :
         LET r == semantic_similarity(Diagonal(batch, "cos_answer_truth"))
         IN  /\ results' = batch
             /\ ret' = r.value
             /\ exc' = IF r.raised THEN "ValueError" ELSE "none"
    /\ pc' = "semantic_similarity"
    /\ UNCHANGED <<dense_results, sparse_results, k, top_n, rrf_scores, fused, mrr, scores, calls, files, memo>>

\* A caller invokes Evaluator.answer_relevance on the batch's answers and
\* queries, as evaluate does at line 157.
CallRelevance ==
    /\ pc = "idle"
    /\ \E batch \in CalibrationBatches :
         LET r == answer_relevance(Diagonal(batch, "cos_answer_query"))
         IN  /\ results' = batch
             /\ ret' = r.value
             /\ exc' = IF r.raised THEN "ValueError" ELSE "none"
    /\ pc' = "answer_relevance"
    /\ UNCHANGED <<dense_results, sparse_results, k, top_n, rrf_scores, fused, mrr, scores, calls, files, memo>>

\* A caller invokes Evaluator.llm_as_judge(results); results holds, for each
\* record, the text the judge model produces for that record's prompt.
CallJudge ==
    /\ pc = "idle"
    /\ \E batch \in JudgeBatches :
         LET r == llm_as_judge(batch)
         IN  /\ results' = batch
             /\ scores' = r.scores
             /\ ret' = r.returned
    /\ pc' = "llm_as_judge"
    /\ exc' = "none"
    /\ UNCHANGED <<dense_results, sparse_results, k, top_n, rrf_scores, fused, mrr, calls, files, memo>>

NextJudge == CallJudge \/ Return

SpecJudge == Init /\ [][NextJudge]_vars

\* A caller invokes Evaluator.evaluate(results).
CallEvaluate ==
    /\ pc = "idle"
    /\ \E batch \in EvaluationBatches :
         \E r \in {evaluate(batch)} :
             /\ results' = batch
             /\ exc' = IF r.raised THEN "ValueError" ELSE "none"
             /\ ret' = IF r.raised THEN <<>> ELSE r.metrics
             /\ mrr' = IF r.raised THEN Zero ELSE r.metrics.MRR
             /\ scores' = IF r.raised THEN <<>> ELSE r.scores
    /\ pc' = "evaluate"
    /\ UNCHANGED <<dense_results, sparse_results, k, top_n, rrf_scores, fused, calls, files, memo>>

NextEvaluate == CallEvaluate \/ Return

SpecEvaluate == Init /\ [][NextEvaluate]_vars

\* A caller invokes EvaluationPipeline.run_evaluation(qa_dataset_path,
\* corpus_path) with the default output_dir: the loop over the dataset,
\* evaluate on its results, then the three reports.
CallRunEvaluation ==
    /\ pc = "idle"
    /\ files.plots < MaxRuns
    /\ \E qa_data \in QADatasets :
       \E answered \in {AnswerLoop(Loaded, qa_data, 1)} :
       \E measured \in {evaluate(answered.results)} :
       \E r \in {Reported(answered, measured, files)} :
             /\ calls' = r.calls
             /\ results' = r.results
             /\ files' = r.files
             /\ exc' = r.exc
             /\ ret' = IF r.raised THEN <<>> ELSE r.metrics
             /\ mrr' = IF r.raised THEN Zero ELSE r.metrics.MRR
    /\ pc' = "run_evaluation"
    /\ UNCHANGED <<dense_results, sparse_results, k, top_n, rrf_scores, fused, scores, memo>>

NextPipeline == CallRunEvaluation \/ Return

SpecPipeline == Init /\ [][NextPipeline]_vars

NextCalibration == CallCalibration \/ CallSimilarity \/ CallRelevance \/ Return

SpecCalibration == Init /\ [][NextCalibration]_vars

-----------------------------------------------------------------------------
(* Properties of reciprocal_rank_fusion *)

RRFReturned == pc = "reciprocal_rank_fusion" /\ exc = "none"

Keys(d) == {d[i].chunk : i \in 1..Len(d)}

ScoreOf(d, chunk) == d[CHOOSE i \in 1..Len(d) : d[i].chunk = chunk].score

Occurrences(hits, chunk) == {i \in 1..Len(hits) : hits[i] = chunk}

\* sum of 1/(kk + i) over the positions i <= upto of hits that hold chunk
RECURSIVE RankTerms(_, _, _, _)
RankTerms(hits, chunk, kk, upto) ==
    IF upto = 0 THEN Zero
    ELSE RAdd(IF hits[upto] = chunk THEN Rat(1, kk + upto) ELSE Zero,
              RankTerms(hits, chunk, kk, upto - 1))

ExpectedScore(chunk) ==
    RAdd(RankTerms(dense_results, chunk, k, Len(dense_results)),
         RankTerms(sparse_results, chunk, k, Len(sparse_results)))

Distinct == Range(dense_results) \cup Range(sparse_results)

\* C1: whenever reciprocal_rank_fusion returns, the dict holds exactly the
\* distinct contents of the two lists, and the score of each content, in
\* the dict and in the returned list, is the sum of 1/(k + rank) over every
\* position at which it occurs in the first and in the second list.
C1_ScoreIsSumOfReciprocalRanks ==
    RRFReturned =>
        /\ Keys(rrf_scores) = Distinct
        /\ \A i \in 1..Len(rrf_scores) :
              rrf_scores[i].score = ExpectedScore(rrf_scores[i].chunk)
        /\ \A i \in 1..Len(fused) :
              fused[i].score = ExpectedScore(fused[i].chunk)

\* a content in both lists and twice in the first one: three terms
C1_Witness ==
    /\ RRFReturned
    /\ \E chunk \in Range(dense_results) \cap Range(sparse_results) :
          /\ Cardinality(Occurrences(dense_results, chunk)) >= 2
          /\ chunk \in {fused[i].chunk : i \in 1..Len(fused)}

ExampleCall ==
    /\ pc = "reciprocal_rank_fusion"
    /\ dense_results = <<"chunk1", "chunk2">>
    /\ sparse_results = <<"chunk2", "chunk3">>
    /\ k = DefaultK
    /\ top_n = DefaultTopN

\* C2: for A = [chunk1, chunk2], B = [chunk2, chunk3], k = 60 and the
\* default top_n the call returns [chunk2, chunk1, chunk3] with the scores
\* 1/62 + 1/61 = 123/3782, 1/61 and 1/62.
C2_WorkedExample ==
    ExampleCall =>
        /\ exc = "none"
        /\ fused = << [chunk |-> "chunk2", score |-> <<123, 3782>>],
                      [chunk |-> "chunk1", score |-> <<1, 61>>],
                      [chunk |-> "chunk3", score |-> <<1, 62>>] >>

C2_Witness == ExampleCall /\ Len(fused) = 3

\* C3: with top_n >= 0 the returned list holds no content twice and has
\* exactly min(top_n, D) entries, D the number of distinct contents of the
\* two lists; it is empty when both lists are empty.
C3_DistinctAndLength ==
    (RRFReturned /\ top_n >= 0) =>
        /\ \A i, j \in 1..Len(fused) : fused[i].chunk = fused[j].chunk => i = j
        /\ Len(fused) = Min(top_n, Cardinality(Distinct))
        /\ (Cardinality(Distinct) <= top_n =>
                {fused[i].chunk : i \in 1..Len(fused)} = Distinct)
        /\ (dense_results = <<>> /\ sparse_results = <<>> => fused = <<>>)

\* a content in both lists, and more distinct contents than top_n > 0
C3_Witness ==
    /\ RRFReturned
    /\ top_n > 0
    /\ Cardinality(Distinct) > top_n
    /\ Range(dense_results) \cap Range(sparse_results) # {}
    /\ Len(fused) = top_n

\* C4: the returned list is ordered by score descending, and every content
\* the truncation left out has a score <= that of every returned entry.
C4_SortedDescending ==
    RRFReturned =>
        /\ \A i \in 1..(Len(fused) - 1) : ~RLess(fused[i].score, fused[i + 1].score)
        /\ \A chunk \in Keys(rrf_scores) \ {fused[i].chunk : i \in 1..Len(fused)} :
              \A i \in 1..Len(fused) : ~RLess(fused[i].score, ScoreOf(rrf_scores, chunk))

\* two returned entries of different score and a content left out
C4_Witness ==
    /\ RRFReturned
    /\ Len(fused) = 2
    /\ RLess(fused[2].score, fused[1].score)
    /\ Cardinality(Keys(rrf_scores)) = 3

\* position of the first occurrence of chunk in "first list, then second list"
FirstSeen(chunk) ==
    LET all == dense_results \o sparse_results
    IN  CHOOSE i \in 1..Len(all) :
            all[i] = chunk /\ \A j \in 1..(i - 1) : all[j] # chunk

\* C5 as stated: the score strictly decreases along the returned list.
C5_StrictlyDecreasing ==
    RRFReturned =>
        \A i \in 1..(Len(fused) - 1) : RLess(fused[i + 1].score, fused[i].score)

\* C5 as amended: along the returned list the score never increases; two
\* consecutive entries either strictly decrease or have equal scores and
\* stand in first-insertion order.
C5_NonIncreasingTiesInOrder ==
    RRFReturned =>
        \A i \in 1..(Len(fused) - 1) :
            \/ RLess(fused[i + 1].score, fused[i].score)
            \/ /\ fused[i + 1].score = fused[i].score
               /\ FirstSeen(fused[i].chunk) < FirstSeen(fused[i + 1].chunk)

\* two consecutive returned entries with the same score
C5_Witness ==
    /\ RRFReturned
    /\ \E i \in 1..(Len(fused) - 1) : fused[i + 1].score = fused[i].score

PositionIn(list, chunk) == CHOOSE i \in 1..Len(list) : list[i].chunk = chunk

\* C6: of two contents with equal scores the one inserted first is ranked
\* ahead, and the truncation never keeps the later one without the earlier.
C6_TiesByInsertionOrder ==
    RRFReturned =>
        \A c, d \in Keys(rrf_scores) :
            ( /\ ScoreOf(rrf_scores, c) = ScoreOf(rrf_scores, d)
              /\ FirstSeen(c) < FirstSeen(d)
              /\ d \in Keys(fused) )
            => /\ c \in Keys(fused)
               /\ PositionIn(fused, c) < PositionIn(fused, d)

\* a tie cut by the truncation, and a tie between a content of the second
\* list only and one of the first list
C6_Witness ==
    /\ RRFReturned
    /\ \E c, d \in Keys(rrf_scores) :
          /\ c # d
          /\ ScoreOf(rrf_scores, c) = ScoreOf(rrf_scores, d)
          /\ c \in Keys(fused)
          /\ d \notin Keys(fused)
          /\ c \in Range(dense_results)
          /\ d \notin Range(dense_results)

ScoresOfCall(dense, sparse) == reciprocal_rank_fusion(dense, sparse, k, top_n).scores

\* C8: a content present in both lists has a score >= the score it gets
\* when only the first list, or only the second list, is given.
C8_Monotone ==
    RRFReturned =>
        \A chunk \in Range(dense_results) \cap Range(sparse_results) :
            /\ ~RLess(ScoreOf(rrf_scores, chunk),
                      ScoreOf(ScoresOfCall(dense_results, <<>>), chunk))
            /\ ~RLess(ScoreOf(rrf_scores, chunk),
                      ScoreOf(ScoresOfCall(<<>>, sparse_results), chunk))

-----------------------------------------------------------------------------
(* Properties of mean_reciprocal_rank *)

MRRReturned == pc = "mean_reciprocal_rank" /\ exc = "none"

\* C9: every returned fused score is >= 0 and every MRR is >= 0.
C9_NonNegative ==
    /\ RRFReturned => \A i \in 1..Len(fused) : ~RLess(fused[i].score, Zero)
    /\ MRRReturned => ~RLess(mrr, Zero)

\* 1/r for the first position r of the ground-truth url, 0 when absent
ReciprocalRank(record) ==
    LET hits == {i \in 1..Len(record.retrieved_urls) :
                    record.retrieved_urls[i] = record.ground_truth_url}
    IN  IF hits = {} THEN Zero
        ELSE Rat(1, CHOOSE r \in hits : \A i \in hits : r <= i)

RECURSIVE SumReciprocalRanks(_, _)
SumReciprocalRanks(batch, upto) ==
    IF upto = 0 THEN Zero
    ELSE RAdd(ReciprocalRank(batch[upto]), SumReciprocalRanks(batch, upto - 1))

\* C10: mean_reciprocal_rank returns the mean of the records' reciprocal
\* ranks, and 0, without raising, for an empty batch.
C10_MeanOfReciprocalRanks ==
    pc = "mean_reciprocal_rank" =>
        /\ exc = "none"
        /\ mrr = IF Len(results) = 0 THEN Zero
                 ELSE RDivInt(SumReciprocalRanks(results, Len(results)), Len(results))

\* one record with the ground truth third, one without it
C10_Witness ==
    /\ MRRReturned
    /\ Len(results) = 2
    /\ \E i, j \in 1..2 :
          /\ ReciprocalRank(results[i]) = <<1, 3>>
          /\ ReciprocalRank(results[j]) = Zero
    /\ mrr = <<1, 6>>

C10_WitnessEmpty == MRRReturned /\ results = <<>> /\ mrr = Zero

-----------------------------------------------------------------------------
(* Properties of error_analysis *)

ErrorsReturned == pc = "error_analysis" /\ exc = "none"

Absent(result) == \A i \in 1..Len(result.retrieved_urls) :
                      result.retrieved_urls[i] # result.ground_truth_url

HowMany(P(_)) == Cardinality({i \in 1..Len(results) : P(results[i])})

\* C11: after any batch the four overall counts sum to the number of
\* records: every record got exactly one of the four error categories.
C11_OneCategoryPerRecord ==
    ErrorsReturned =>
        ret.overall.retrieval_failure + ret.overall.generation_hallucination
          + ret.overall.context_irrelevant + ret.overall.no_error = Len(results)

\* a record that meets all three failure conditions at once
C11_Witness ==
    /\ ErrorsReturned
    /\ Len(results) = MaxBatch
    /\ \E i \in 1..Len(results) :
          /\ Absent(results[i])
          /\ RLess(results[i].cos_answer_truth, Half)
          /\ RLess(results[i].cos_answer_query, Half)

IsRetrievalFailure(r) == Absent(r)
IsHallucination(r) == ~Absent(r) /\ RLess(r.cos_answer_truth, Half)
IsContextIrrelevant(r) ==
    ~Absent(r) /\ ~RLess(r.cos_answer_truth, Half) /\ RLess(r.cos_answer_query, Half)
IsNoError(r) ==
    ~Absent(r) /\ ~RLess(r.cos_answer_truth, Half) /\ ~RLess(r.cos_answer_query, Half)

\* C12: the categories follow the fixed priority order, first match wins:
\* retrieval_failure iff the ground truth is absent; else
\* generation_hallucination iff similarity < 0.5; else context_irrelevant
\* iff relevance < 0.5; else no_error.  Exactly 0.5 triggers nothing.
C12_PriorityOrder ==
    ErrorsReturned =>
        /\ ret.overall.retrieval_failure = HowMany(IsRetrievalFailure)
        /\ ret.overall.generation_hallucination = HowMany(IsHallucination)
        /\ ret.overall.context_irrelevant = HowMany(IsContextIrrelevant)
        /\ ret.overall.no_error = HowMany(IsNoError)

\* one record with similarity and relevance of exactly 0.5 counted as
\* no_error, one with low similarity and low relevance counted once
C12_Witness ==
    /\ ErrorsReturned
    /\ \E i, j \in 1..Len(results) :
          /\ ~Absent(results[i])
          /\ results[i].cos_answer_truth = Half
          /\ results[i].cos_answer_query = Half
          /\ ~Absent(results[j])
          /\ RLess(results[j].cos_answer_truth, Half)
          /\ RLess(results[j].cos_answer_query, Half)
    /\ ret.overall.no_error = 1
    /\ ret.overall.generation_hallucination = 1

-----------------------------------------------------------------------------
(* Properties of confidence_calibration *)

CalibrationReturned == pc = "confidence_calibration" /\ exc = "none"

One == <<1, 1>>

\* C16: every record's confidence is the mean of its similarity and
\* relevance, its correctness is 1 iff the similarity is > 0.7 (0 at
\* exactly 0.7), and both lists have one entry per record, in input order.
C16_ConfidenceAndCorrectness ==
    CalibrationReturned =>
        /\ Len(ret.confidences) = Len(results)
        /\ Len(ret.correctness) = Len(results)
        /\ \A i \in 1..Len(results) :
              /\ RAdd(ret.confidences[i], ret.confidences[i])
                    = RAdd(results[i].cos_answer_truth, results[i].cos_answer_query)
              /\ ret.correctness[i] \in {0, 1}
              /\ ret.correctness[i] = 1 <=> RLess(SevenTenths, results[i].cos_answer_truth)

\* a similarity of exactly 0.7 followed by one above it
C16_Witness ==
    /\ CalibrationReturned
    /\ Len(results) = 2
    /\ results[1].cos_answer_truth = SevenTenths
    /\ ret.correctness[1] = 0
    /\ ret.correctness[2] = 1
    /\ ret.confidences[1] # ret.confidences[2]

\* C17: every per-record confidence lies in [0, 1].
C17_ConfidenceInUnitInterval ==
    CalibrationReturned =>
        \A i \in 1..Len(ret.confidences) :
            RLeq(Zero, ret.confidences[i]) /\ RLeq(ret.confidences[i], One)

\* the records whose confidence lies in [b/10, (b+1)/10)
InBin(b) ==
    {j \in 1..Len(results) :
        /\ RLeq(Rat(b, 10), ret.confidences[j])
        /\ RLess(ret.confidences[j], Rat(b + 1, 10))}

RECURSIVE SumOver(_, _)
SumOver(xs, js) ==
    IF js = {} THEN Zero
    ELSE LET j == CHOOSE x \in js : TRUE
         IN  RAdd(xs[j], SumOver(xs, js \ {j}))

CorrectnessAsRationals == [j \in 1..Len(results) |-> <<ret.correctness[j], 1>>]

\* |sum of confidences - sum of correctness| over the bin, divided by N:
\* the bin's |mean confidence - mean correctness| * (population / N)
BinGap(b) ==
    RDivInt(RAbs(RSub(SumOver(ret.confidences, InBin(b)),
                      SumOver(CorrectnessAsRationals, InBin(b)))),
            Len(results))

RECURSIVE SumOfGaps(_)
SumOfGaps(b) == IF b < 0 THEN Zero ELSE RAdd(BinGap(b), SumOfGaps(b - 1))

Calibrated ==
    \A b \in 0..9 :
        SumOver(ret.confidences, InBin(b)) = SumOver(CorrectnessAsRationals, InBin(b))

\* C18: the ECE is the sum over the ten bins [i/10, (i+1)/10) of
\* |mean confidence - mean correctness| * (bin population / N), empty bins
\* adding nothing; it is 0 when the two means agree in every populated bin.
C18_ECEFormula ==
    (CalibrationReturned /\ results # <<>>) =>
        /\ ret.expected_calibration_error = SumOfGaps(9)
        /\ (Calibrated => ret.expected_calibration_error = Zero)

\* two populated bins, one of them with a confidence on its lower edge,
\* and a positive ECE
C18_Witness ==
    /\ CalibrationReturned
    /\ Len(results) = 2
    /\ ret.confidences[1] = Half
    /\ InBin(5) = {1}
    /\ \E b \in 0..9 : b # 5 /\ InBin(b) = {2}
    /\ RLess(Zero, ret.expected_calibration_error)

\* a calibrated batch: one bin holding a correct and an incorrect record,
\* both with confidence 0.5
C18_WitnessCalibrated ==
    /\ CalibrationReturned
    /\ Len(results) = 2
    /\ InBin(5) = {1, 2}
    /\ ret.correctness[1] # ret.correctness[2]
    /\ Calibrated
    /\ ret.expected_calibration_error = Zero

\* C19: for a non-empty batch 0 <= ECE <= 1.
C19_ECEBounds ==
    (CalibrationReturned /\ results # <<>>) =>
        /\ RLeq(Zero, ret.expected_calibration_error)
        /\ RLeq(ret.expected_calibration_error, One)

\* every record in one bin, all correct with a confidence below 0.5
C19_Witness ==
    /\ CalibrationReturned
    /\ Len(results) = MaxBatch
    /\ \E b \in 0..4 : InBin(b) = 1..Len(results)
    /\ \A i \in 1..Len(results) : ret.correctness[i] = 1
    /\ RLess(Half, ret.expected_calibration_error)

\* C20: on a batch of zero records semantic_similarity, answer_relevance
\* and confidence_calibration each fail with an error.
C20_EmptyBatchFails ==
    ( /\ pc \in {"semantic_similarity", "answer_relevance", "confidence_calibration"}
      /\ results = <<>> )
    => exc # "none"

-----------------------------------------------------------------------------
(* Properties of llm_as_judge *)

JudgeReturned == pc = "llm_as_judge"

\* The text judge_llm.generate returned for record i.
Response(i) == generate(results[i], << <<>> >>)

\* The first line of the stripped response.
ScoreLine(i) ==
    LET s == Strip(Response(i))
    IN  IF \E j \in 1..Len(s) : s[j] = "\n"
        THEN SubSeq(s, 1, (CHOOSE j \in 1..Len(s) :
                              s[j] = "\n" /\ \A h \in 1..(j - 1) : s[h] # "\n") - 1)
        ELSE s

\* The maximal digit runs of a line, as <<first position, last position>>.
DigitRuns(line) ==
    { r \in (1..Len(line)) \X (1..Len(line)) :
        /\ r[1] <= r[2]
        /\ \A j \in r[1]..r[2] : line[j] \in Digits
        /\ r[1] = 1 \/ line[r[1] - 1] \notin Digits
        /\ r[2] = Len(line) \/ line[r[2] + 1] \notin Digits }

\* The value of the n-th numeric token of a line, from the left.
TokenValue(line, n) ==
    LET r == CHOOSE r \in DigitRuns(line) :
                 Cardinality({q \in DigitRuns(line) : q[1] < r[1]}) = n - 1
    IN  int(SubSeq(line, r[1], r[2]))

FellBack(i) == Cardinality(DigitRuns(ScoreLine(i))) < NumCriteria

\* C13: for each record whose score line (the first line of the stripped
\* judge response) holds at least four maximal digit runs, the first four
\* are that record's factual_accuracy, completeness, relevance and coherence
\* scores, in that order; further tokens play no part.
C13_FirstFourTokens ==
    JudgeReturned =>
        \A i \in 1..Len(results) :
            ~FellBack(i) =>
                \A n \in 1..NumCriteria :
                    /\ Len(scores[Criteria[n]]) >= i
                    /\ scores[Criteria[n]][i] = TokenValue(ScoreLine(i), n)

\* A record with five tokens: the fifth is ignored.
C13_Witness ==
    /\ JudgeReturned
    /\ \E i \in 1..Len(results) :
         /\ Cardinality(DigitRuns(ScoreLine(i))) > NumCriteria
         /\ scores["factual_accuracy"][i] = 5
         /\ scores["coherence"][i] = 2

\* A record whose first token has two digits and whose response has a
\* second line.
C13_WitnessTwoDigits ==
    /\ JudgeReturned
    /\ \E i \in 1..Len(results) :
         /\ ~FellBack(i)
         /\ scores["factual_accuracy"][i] = 12
         /\ Len(SplitLines(Strip(Response(i)))) > 1

\* C14: llm_as_judge returns without raising for every judge text; each
\* criterion has one score for each record, and a record whose score line
\* holds fewer than four numeric tokens has the score 3 on every criterion.
C14_FallbackNeverRaises ==
    JudgeReturned =>
        /\ exc = "none"
        /\ \A key \in Range(Criteria) : Len(scores[key]) = Len(results)
        /\ \A i \in 1..Len(results) :
               FellBack(i) => \A key \in Range(Criteria) : scores[key][i] = DefaultScore

\* A batch with a record that fell back and a record that did not.
C14_Witness ==
    /\ JudgeReturned
    /\ \E i, j \in 1..Len(results) : FellBack(i) /\ ~FellBack(j)

C14_WitnessEmptyText ==
    /\ JudgeReturned
    /\ \E i \in 1..Len(results) : Response(i) = <<>> /\ FellBack(i)

\* C15: a record that fell back to the default scores has the parse-failure
\* sentinel as its explanation.
C15_FallbackSentinel ==
    JudgeReturned =>
        \A i \in 1..Len(results) :
            FellBack(i) => ret.explanations[i] = ParsingFailed

-----------------------------------------------------------------------------
(* Properties of the by_category breakdown of error_analysis *)

ErrorTypes == <<"retrieval", "generation", "context", "none">>
OverallNames ==
    <<"retrieval_failure", "generation_hallucination", "context_irrelevant", "no_error">>

\* The error type the priority order gives a record.
ErrorTypeOf(r) ==
    IF IsRetrievalFailure(r) THEN 1
    ELSE IF IsHallucination(r) THEN 2
    ELSE IF IsContextIrrelevant(r) THEN 3
    ELSE 4

RECURSIVE SumCells(_, _)
SumCells(f, S) ==
    IF S = {} THEN 0
    ELSE LET x == CHOOSE x \in S : TRUE IN f[x] + SumCells(f, S \ {x})

\* C24: each record adds one to exactly one cell of by_category, the cell of
\* its own question category and of the error type of its overall category:
\* every cell equals the number of such records, each error type's cells
\* sum to its overall count, and the sixteen cells sum to the batch size.
C24_OneCellPerRecord ==
    ErrorsReturned =>
        LET typeOf == [i \in 1..Len(results) |-> ErrorTypeOf(results[i])]
            cells  == [cell \in Categories \X (DOMAIN ErrorTypes) |->
                          ret.by_category[cell[1]][ErrorTypes[cell[2]]]]
        IN  /\ \A cell \in DOMAIN cells :
                  cells[cell] =
                      Cardinality({i \in 1..Len(results) :
                                      results[i].category = cell[1] /\ typeOf[i] = cell[2]})
            /\ \A t \in DOMAIN ErrorTypes :
                  SumCells(cells, Categories \X {t}) = ret.overall[OverallNames[t]]
            /\ SumCells(cells, DOMAIN cells) = Len(results)

\* two records of different question categories and different error types
C24_Witness ==
    /\ ErrorsReturned
    /\ \E i, j \in 1..Len(results) :
          /\ results[i].category = "comparative"
          /\ results[j].category = "multi-hop"
          /\ ErrorTypeOf(results[i]) = 2
          /\ ErrorTypeOf(results[j]) = 4
    /\ ret.by_category["comparative"]["generation"] = 1
    /\ ret.by_category["multi-hop"]["none"] = 1

-----------------------------------------------------------------------------
(* Properties of the binning of confidence_calibration *)

\* the records whose confidence is negative or exactly 1
OutsideBins ==
    {j \in 1..Len(results) :
        RLess(ret.confidences[j], Zero) \/ ret.confidences[j] = One}

BinIndices == 0..(NumBinEdges - 2)

RECURSIVE Populations(_)
Populations(S) ==
    IF S = {} THEN 0
    ELSE LET i == CHOOSE i \in S : TRUE
         IN  Cardinality(Mask(ret.confidences, i)) + Populations(S \ {i})

\* the batch without the records outside the bins
InsideOnly == SelectSeq(results, LAMBDA r : LET c == CalibrationPoint(r).confidence
                                            IN  RLeq(Zero, c) /\ RLess(c, One))

\* C28: a record whose confidence is negative or exactly 1 is in none of
\* the ten bins and adds nothing to the ECE, which is the ECE of the other
\* records scaled by their share of the batch; the record still counts in
\* the denominator, in mean_confidence and in accuracy; the bin populations
\* sum to the number of records inside [0, 1), at most the batch size.
C28_OutsideBinsStillCounted ==
    (CalibrationReturned /\ results # <<>>) =>
        /\ \A j \in OutsideBins : \A i \in BinIndices : j \notin Mask(ret.confidences, i)
        /\ Populations(BinIndices) = Len(results) - Cardinality(OutsideBins)
        /\ Populations(BinIndices) <= Len(results)
        /\ ret.expected_calibration_error =
              RMul(confidence_calibration(InsideOnly).expected_calibration_error,
                   Rat(Len(InsideOnly), Len(results)))
        /\ ret.mean_confidence = Mean(ret.confidences)
        /\ ret.accuracy = Mean(CorrectnessAsRationals)

\* a record with a negative confidence beside a miscalibrated record inside
\* the bins: the populations sum to less than the batch size
C28_Witness ==
    /\ CalibrationReturned
    /\ Len(results) = 2
    /\ RLess(ret.confidences[1], Zero)
    /\ OutsideBins = {1}
    /\ Populations(BinIndices) = 1
    /\ RLess(Zero, ret.expected_calibration_error)
    /\ RLess(ret.mean_confidence, ret.confidences[2])

\* a record with a confidence of exactly 1
C28_WitnessExactlyOne ==
    /\ CalibrationReturned
    /\ \E j \in 1..Len(results) : ret.confidences[j] = One /\ j \in OutsideBins
    /\ Populations(BinIndices) < Len(results)

-----------------------------------------------------------------------------
(* Properties of the judge's use of Generator.generate *)

\* the number of whitespace-separated words of a text
WordCount(s) ==
    Cardinality({j \in 1..Len(s) :
                    s[j] \notin Whitespace /\ (j = 1 \/ s[j - 1] \in Whitespace)})

\* the judge model's text has three or more words and no "I don't know"
Replaced(i) == WordCount(results[i]) >= 3 /\ ~Contains(results[i], IDontKnow)

\* C27: a judge output of three or more words that does not contain
\* "I don't know" reaches the parser as "I don't know": its record has the
\* default score on every criterion and an empty explanation.  Hence a
\* record with parsed scores has an output of fewer than three words or one
\* containing "I don't know".
C27_GroundingCheckMasksJudge ==
    JudgeReturned =>
        \A i \in 1..Len(results) :
            /\ Replaced(i) =>
                  /\ \A key \in Range(Criteria) : scores[key][i] = DefaultScore
                  /\ ret.explanations[i] = <<>>
            /\ (\E key \in Range(Criteria) : scores[key][i] # DefaultScore) =>
                  WordCount(results[i]) < 3 \/ Contains(results[i], IDontKnow)

\* an output in the prompt's format, with four scores, gets the defaults
C27_Witness ==
    /\ JudgeReturned
    /\ \E i \in 1..Len(results) :
          /\ Replaced(i)
          /\ Cardinality(DigitRuns(results[i])) >= NumCriteria
          /\ \A key \in Range(Criteria) : scores[key][i] = DefaultScore

\* parsed scores from an output of three or more words: it contains
\* "I don't know"
C27_WitnessParsed ==
    /\ JudgeReturned
    /\ \E i \in 1..Len(results) :
          /\ WordCount(results[i]) >= 3
          /\ Contains(results[i], IDontKnow)
          /\ scores["factual_accuracy"][i] = 2

-----------------------------------------------------------------------------
(* Properties of answer_query *)

AnswerReturned == pc = "answer_query"

Retrievals == {"dense_retriever.retrieve", "sparse_retriever.retrieve"}

Callees == [i \in 1..Len(calls) |-> calls[i].callee]

TimesCalled(callee) == Cardinality({i \in 1..Len(calls) : calls[i].callee = callee})

\* C21: when the dense or the sparse retrieval raises, answer_query raises:
\* that retrieval is the last call made (no fusion, no generation, no second
\* call of any collaborator) and no result is returned.
C21_RetrievalFailurePropagates ==
    AnswerReturned =>
        \A i \in 1..Len(calls) :
            (calls[i].callee \in Retrievals /\ calls[i].raised) =>
                /\ exc # "none"
                /\ ret = <<>>
                /\ i = Len(calls)
                /\ "reciprocal_rank_fusion" \notin Range(Callees)
                /\ "generator.generate" \notin Range(Callees)
                /\ \A callee \in Retrievals : TimesCalled(callee) <= 1

\* the sparse retrieval raised after the dense one had returned hits
C21_Witness ==
    /\ AnswerReturned
    /\ Callees = <<"dense_retriever.retrieve", "sparse_retriever.retrieve">>
    /\ ~calls[1].raised
    /\ calls[2].raised
    /\ dense_results # <<>>
    /\ exc # "none"

\* the dense retrieval raised: the sparse one was not called
C21_WitnessDense ==
    /\ AnswerReturned
    /\ Callees = <<"dense_retriever.retrieve">>
    /\ calls[1].raised
    /\ exc # "none"

FusionCalled == AnswerReturned /\ "reciprocal_rank_fusion" \in Range(Callees)

\* C22: the fusion runs only after both retrievals have returned, takes the
\* dense list first and the sparse list second, and its result is the
\* function of those two lists and top_n alone.
C22_FusionAfterBothRetrievals ==
    FusionCalled =>
        /\ SubSeq(Callees, 1, 3) = <<"dense_retriever.retrieve",
                                     "sparse_retriever.retrieve",
                                     "reciprocal_rank_fusion">>
        /\ ~calls[1].raised /\ ~calls[2].raised
        /\ calls[3].args = <<dense_results, sparse_results, top_n>>
        /\ fused = reciprocal_rank_fusion(dense_results, sparse_results, DefaultK, top_n).fused

\* two lists whose fusion in the other order gives another list
C22_Witness ==
    /\ FusionCalled
    /\ dense_results # <<>> /\ sparse_results # <<>>
    /\ fused # <<>>
    /\ fused # reciprocal_rank_fusion(sparse_results, dense_results, DefaultK, top_n).fused

ContentsOf(hits) == [i \in 1..Len(hits) |-> hits[i].chunk]

\* C25: a completed answer_query has called dense retrieval(query, top_k),
\* sparse retrieval(query, top_k), the fusion and the generation, in that
\* order and once each; the generation got the contents of the fused list
\* in fused order, context_chunks is that sequence, and it has no duplicate
\* and at most top_n entries.
C25_StepsAndContext ==
    (AnswerReturned /\ exc = "none") =>
        /\ Callees = <<"dense_retriever.retrieve", "sparse_retriever.retrieve",
                       "reciprocal_rank_fusion", "generator.generate">>
        /\ calls[1].args = calls[2].args
        /\ calls[1].args[1] = ret.query
        /\ calls[4].args = <<ret.query, ContentsOf(fused)>>
        /\ ret.context_chunks = ContentsOf(fused)
        /\ \A i, j \in 1..Len(ret.context_chunks) :
              ret.context_chunks[i] = ret.context_chunks[j] => i = j
        /\ Len(ret.context_chunks) <= top_n

-----------------------------------------------------------------------------
(* Properties of evaluate *)

EvaluateReturned == pc = "evaluate" /\ exc = "none"

\* the scenario's first record: the ground truth retrieved first, with
\* similarity 0.9 and relevance 0.8
FoundFirstAndGood(r) ==
    /\ r.retrieved_urls # <<>>
    /\ r.retrieved_urls[1] = r.ground_truth_url
    /\ r.cos_answer_truth = <<9, 10>>
    /\ r.cos_answer_query = <<4, 5>>

Scenario ==
    /\ Len(results) = 2
    /\ \E i, j \in 1..2 : i # j /\ FoundFirstAndGood(results[i]) /\ Absent(results[j])

\* C23: for a batch of two records, one with its ground truth retrieved
\* first, similarity 0.9 and relevance 0.8, the other with its ground truth
\* not retrieved, MRR is 0.5 and the overall counts are no_error 1,
\* retrieval_failure 1, generation_hallucination 0, context_irrelevant 0.
C23_EndToEnd ==
    (EvaluateReturned /\ Scenario) =>
        /\ ret.MRR = Half
        /\ ret.Error_Analysis.overall =
              [retrieval_failure |-> 1, generation_hallucination |-> 0,
               context_irrelevant |-> 0, no_error |-> 1]

\* the scenario with a second record of low similarity and low relevance
C23_Witness ==
    /\ EvaluateReturned
    /\ Scenario
    /\ \E j \in 1..2 :
          /\ Absent(results[j])
          /\ RLess(results[j].cos_answer_truth, Half)
          /\ RLess(results[j].cos_answer_query, Half)
    /\ ret.MRR = Half

\* the overall category error_analysis gives record i on its own
ClassifiedAs(i, kind) == error_analysis(<<results[i]>>).overall[kind] = 1

\* C29: within one evaluate, a record counted as generation_hallucination
\* has correctness 0, and a record of correctness 1 is counted as
\* retrieval_failure, context_irrelevant or no_error; both functions read
\* the similarity of the same singleton call.
C29_HallucinationIsIncorrect ==
    EvaluateReturned =>
        \A i \in 1..Len(results) :
            /\ ClassifiedAs(i, "generation_hallucination") =>
                  ret.Confidence_Calibration.correctness[i] = 0
            /\ ret.Confidence_Calibration.correctness[i] = 1 =>
                  \/ ClassifiedAs(i, "retrieval_failure")
                  \/ ClassifiedAs(i, "context_irrelevant")
                  \/ ClassifiedAs(i, "no_error")
            /\ ret.Confidence_Calibration.correctness[i] =
                  (IF RLess(SevenTenths,
                            semantic_similarity(<<results[i].cos_answer_truth>>).value)
                   THEN 1 ELSE 0)

\* a hallucination beside a correct record that is context_irrelevant
C29_Witness ==
    /\ EvaluateReturned
    /\ \E i, j \in 1..Len(results) :
          /\ ClassifiedAs(i, "generation_hallucination")
          /\ ret.Confidence_Calibration.correctness[i] = 0
          /\ ret.Confidence_Calibration.correctness[j] = 1
          /\ ClassifiedAs(j, "context_irrelevant")
    /\ ret.Error_Analysis.overall.generation_hallucination = 1

-----------------------------------------------------------------------------
(* Properties of run_evaluation *)

PipelineReturned == pc = "run_evaluation" /\ exc = "none"

NoPlaceholderSource ==
    \A i \in 1..Len(results) : results[i].ground_truth_url # Placeholder

\* C26: every retrieved chunk of every record has the url 'placeholder';
\* when no record's source_url is 'placeholder', the ground truth is never
\* among the retrieved urls: MRR is 0 and every record is counted as
\* retrieval_failure, whatever was retrieved and generated.
C26_PlaceholderDefeatsRetrievalMetrics ==
    PipelineReturned =>
        /\ \A i \in 1..Len(results) :
              /\ Len(results[i].retrieved_chunks) = Len(results[i].context_chunks)
              /\ \A j \in 1..Len(results[i].retrieved_chunks) :
                    results[i].retrieved_chunks[j].url = Placeholder
        /\ NoPlaceholderSource =>
              /\ ret.MRR = Zero
              /\ ret.Error_Analysis.overall.retrieval_failure = Len(results)
              /\ ret.Error_Analysis.overall.generation_hallucination = 0
              /\ ret.Error_Analysis.overall.context_irrelevant = 0
              /\ ret.Error_Analysis.overall.no_error = 0

\* two records with retrieved chunks and an answer close to the ground
\* truth, both counted as retrieval_failure
C26_Witness ==
    /\ PipelineReturned
    /\ NoPlaceholderSource
    /\ Len(results) = 2
    /\ \A i \in 1..2 :
          /\ Len(results[i].retrieved_chunks) = 2
          /\ results[i].cos_answer_truth = <<9, 10>>
    /\ ret.MRR = Zero
    /\ ret.Error_Analysis.overall.retrieval_failure = 2

\* the callees of the report calls, in order
ReportCalls ==
    SelectSeq(Callees, LAMBDA c : c \in {"generate_csv_report", "generate_pdf_report",
                                         "generate_plots"})

\* C30: a completed run has written the CSV, then the PDF, then the plots;
\* the image inside the PDF is the one that was at the plots path before the
\* run (none when there was no file), never the plots this run wrote.
C30_PdfBeforePlots ==
    PipelineReturned =>
        /\ ReportCalls = <<"generate_csv_report", "generate_pdf_report", "generate_plots">>
        /\ files.csv = files.plots /\ files.pdf = files.plots
        /\ files.pdf_image # files.plots
        /\ files.pdf_image = files.plots - 1

\* a second run: its PDF shows the plots of the first run
C30_Witness ==
    /\ PipelineReturned
    /\ files.plots = 2
    /\ files.pdf = 2
    /\ files.pdf_image = 1

\* a first run: its PDF has no visualizations page
C30_WitnessFirstRun ==
    /\ PipelineReturned
    /\ files.plots = 1
    /\ files.pdf_image = 0

=============================================================================
